---- MODULE Spec2Model ----
(***************************************************************************)
(* IncDigest report-generation pipeline: the generate-report edge function *)
(* (orchestrator), the Python worker's process_job, the deduct_token       *)
(* ledger function and the SupabaseClient writers, over the profiles,      *)
(* reports, token_transactions and error_logs tables.                      *)
(*                                                                         *)
(* The relational store is an external collaborator: every statement the   *)
(* code sends is one atomic step that succeeds, a query returns the rows   *)
(* that match at that moment, and row-level access policies are not        *)
(* modelled.  A statement fails only for a reason the modelled state       *)
(* gives (a row that is gone, an insufficient balance).                    *)
(***************************************************************************)
EXTENDS Integers, Sequences, FiniteSets, TLC

VARIABLES
    tokens,             \* profiles.tokens_remaining, per account
    rowLock,            \* which session holds the FOR UPDATE lock of a profiles row
    token_transactions, \* the token_transactions table, in insertion order
    reports,            \* the reports table: a set of rows
    nextReportId,       \* stands for gen_random_uuid() of reports.id
    error_logs,         \* the error_logs table, in insertion order
    now,                \* wall clock, in days
    req,                \* generate-report invocations (edge function)
    dt,                 \* deduct_token invocations: one frame per session
    jobs,               \* app.py `jobs` dict and the process_job threads
    nextJobId,          \* stands for crypto.randomUUID() of job ids
    client,             \* direct callers of the ledger operations
    deployed,           \* which generate-report variant is deployed
    callback_log,       \* what report-callback has logged, in arrival order
    faults              \* how many calls of the worker have raised so far

vars == <<tokens, rowLock, token_transactions, reports, nextReportId,
          error_logs, now, req, dt, jobs, nextJobId, client, deployed,
          callback_log, faults>>

----------------------------------------------------------------------------
(* Bounds of the model *)

NumRequests == 2
NumClients == 2
MaxInitBalance == 1
MaxTicks == 1
TickDays == 31
MaxFaults == 1
MaxPurchase == 2
MaxCallbacks == 3

\* what the summarization adapter reports for one run
SummaryCost == 2
SummaryTokens == 3

\* how many sections of the newer and of the older filing an extraction
\* may miss or spoil, and the lengths of a stub and of an untracked section
MaxDefects == 2
OlderDefects == 1
StubWords == 200
OtherWords == 100

(* Program constants *)

WindowDays == 30
NULL == 0

UserList == <<"u1", "u2">>
Users == {UserList[i] : i \in DOMAIN UserList}
RawTickers == {"tst", "TST"}

Requests == {<<"req", i>> : i \in 1..NumRequests}
\* a request that arrives after the concurrent ones and their jobs are over
Later == <<"req", NumRequests + 1>>
Clients == {<<"client", i>> : i \in 1..NumClients}
Sessions == Requests \cup {Later} \cup Clients
NoSession == <<"none", 0>>
JobIds == 1..(NumRequests + 1)

----------------------------------------------------------------------------
(* Helpers over sequences and sets *)

RECURSIVE SumAmounts(_)
SumAmounts(s) ==
    IF s = <<>> THEN 0 ELSE Head(s).tokens_amount + SumAmounts(Tail(s))

TxnsOf(u) == SelectSeq(token_transactions, LAMBDA t : t.user_id = u)

ReportIds == {r.id : r \in reports}
ReportById(id) == CHOOSE r \in reports : r.id = id

\* a ticker compared as it was typed
Identity(t) == t

\* String.prototype.toUpperCase on the ticker inputs
toUpperCase(t) ==
    CASE t = "tst" -> "TST"
      [] t = "TST" -> "TST"
      [] OTHER -> t

----------------------------------------------------------------------------
(* deduct_token(p_user_id): plpgsql function, one transaction.             *)
(* SELECT ... FOR UPDATE takes the row lock and reads the balance; the     *)
(* check and the UPDATE follow; the lock is released at commit or abort.   *)

\* current_balance is an INTEGER variable that starts NULL; is_null says
\* that it holds NULL, and current_balance is then not looked at
IdleFrame ==
    [pc |-> "idle", p_user_id |-> "u1", current_balance |-> 0,
     is_null |-> TRUE]

\* the caller issues rpc('deduct_token', {p_user_id: u})
CallDeduct(s, u) ==
    dt' = [dt EXCEPT ![s] = [IdleFrame EXCEPT !.pc = "call", !.p_user_id = u]]

\* what the same SELECT without FOR UPDATE would see: no session ever waits
Unlocked(u) == TRUE

\* SELECT tokens_remaining INTO current_balance ... FOR UPDATE
LockFree(u) == rowLock[u] = NoSession

\* tokens holds the profile rows whose tokens_remaining is not NULL (the
\* column is INTEGER DEFAULT 0 without NOT NULL): an account outside its
\* domain has no profile row, or one with a NULL balance
HasBalance(u) == u \in DOMAIN tokens

\* SELECT ... INTO without STRICT: no row, or a NULL column, leaves NULL
\* in current_balance and raises nothing
deduct_token_select(s) ==
    /\ dt[s].pc = "call"
    /\ LockFree(dt[s].p_user_id)
    /\ rowLock' = [rowLock EXCEPT ![dt[s].p_user_id] = s]
    /\ dt' = [dt EXCEPT
                 ![s].pc = "locked",
                 ![s].is_null = ~HasBalance(dt[s].p_user_id),
                 ![s].current_balance =
                     IF HasBalance(dt[s].p_user_id)
                     THEN tokens[dt[s].p_user_id] ELSE 0]
    /\ UNCHANGED tokens

\* the same test against 0 instead of 1
BelowZero(balance) == balance < 0

\* IF current_balance < 1 THEN RAISE EXCEPTION
Insufficient(balance) == balance < 1

\* a decrement by two
DecrementTwice(balance) == balance - 2

\* UPDATE profiles SET tokens_remaining = tokens_remaining - 1
Decrement(balance) == balance - 1

\* NULL < 1 is NULL and IF takes the branch only on TRUE; the UPDATE then
\* matches no row, or computes NULL - 1 = NULL, and the function returns
deduct_token_body(s) ==
    /\ dt[s].pc = "locked"
    /\ LET u == dt[s].p_user_id IN
       /\ rowLock' = [rowLock EXCEPT ![u] = NoSession]
       /\ IF ~dt[s].is_null /\ Insufficient(dt[s].current_balance)
          THEN /\ dt' = [dt EXCEPT ![s].pc = "raised"]
               /\ UNCHANGED tokens
          ELSE /\ dt' = [dt EXCEPT ![s].pc = "returned"]
               /\ tokens' = IF HasBalance(u)
                            THEN [tokens EXCEPT ![u] = Decrement(tokens[u])]
                            ELSE tokens

----------------------------------------------------------------------------
(* generate-report edge function.  Two variants are in the source: the     *)
(* service-role one (user_id from the body, clones the cached row) and the *)
(* authenticated one (user from the session, returns the cached row).      *)

Variants == {"service", "auth"}

NoCached == [id |-> NULL, refunded |-> FALSE]
NoRow == [id |-> NULL]
NoResponse == [status |-> 0, error |-> "", cached |-> FALSE,
               refunded |-> FALSE, report_id |-> NULL, job_id |-> NULL]

IdleRequest ==
    [pc |-> "idle", user_id |-> "", ticker |-> "", tickerUpper |-> "",
     cachedReport |-> NoCached, fullReport |-> NoRow, newReport |-> NULL,
     profile |-> 0, jobId |-> NULL, response |-> NoResponse]

ErrorResponse(status, error) ==
    [NoResponse EXCEPT !.status = status, !.error = error]

CachedResponse(refunded, report_id) ==
    [NoResponse EXCEPT !.status = 200, !.cached = TRUE,
                       !.refunded = refunded, !.report_id = report_id]

AcceptedResponse(job_id) ==
    [NoResponse EXCEPT !.status = 202, !.job_id = job_id]

Return(r, response) ==
    req' = [req EXCEPT ![r].pc = "done", ![r].response = response]

\* the request arrives; the body is parsed and the inputs are checked
Receive(r) ==
    /\ req[r].pc = "idle"
    /\ \E u \in Users \cup {""}, t \in RawTickers \cup {""} :
         LET in == [req[r] EXCEPT !.user_id = u, !.ticker = t] IN
         IF deployed = "service"
         THEN CASE t = "" ->
                     req' = [req EXCEPT ![r] = [in EXCEPT !.pc = "done",
                         !.response = ErrorResponse(400, "missing_ticker")]]
                [] t # "" /\ u = "" ->
                     req' = [req EXCEPT ![r] = [in EXCEPT !.pc = "done",
                         !.response = ErrorResponse(400, "missing_user_id")]]
                [] OTHER ->
                     req' = [req EXCEPT ![r] = [in EXCEPT !.pc = "lookup",
                         !.tickerUpper = toUpperCase(t)]]
         ELSE CASE u = "" ->
                     req' = [req EXCEPT ![r] = [in EXCEPT !.pc = "done",
                         !.response = ErrorResponse(401, "unauthorized")]]
                [] u # "" /\ t = "" ->
                     req' = [req EXCEPT ![r] = [in EXCEPT !.pc = "done",
                         !.response = ErrorResponse(400, "missing_ticker")]]
                [] OTHER ->
                     req' = [req EXCEPT ![r] = [in EXCEPT !.pc = "lookup",
                         !.tickerUpper = toUpperCase(t)]]
    /\ UNCHANGED <<tokens, rowLock, token_transactions, reports, nextReportId,
                   error_logs, now, dt, jobs, nextJobId, client, deployed, callback_log, faults>>

\* .eq('ticker', tickerUpper).gte('created_at', thirtyDaysAgo)
Fresh(row, today) == row.created_at >= today - WindowDays

FreshReports(ticker) ==
    {row \in reports : row.ticker = ticker /\ Fresh(row, now)}

\* a lookup ordered the other way round: ascending, limit 1
Oldest(rows) == CHOOSE row \in rows : \A other \in rows : row.id <= other.id
\* .order('created_at', { ascending: false }).limit(1): rows are stamped
\* NOW() at insert and ids grow with insertion, so the newest row is the
\* one with the largest id
Newest(rows) == CHOOSE row \in rows : \A other \in rows : other.id <= row.id

\* STEP 1: the cache lookup
CacheLookup(r) ==
    /\ req[r].pc = "lookup"
    /\ LET existingReports == FreshReports(req[r].tickerUpper) IN
       IF existingReports # {}
       THEN LET cachedReport == [id |-> Newest(existingReports).id,
                                 refunded |-> Newest(existingReports).refunded]
            IN  IF deployed = "service"
                THEN /\ req' = [req EXCEPT ![r].pc = "fetch",
                                           ![r].cachedReport = cachedReport]
                     /\ UNCHANGED dt
                ELSE IF ~cachedReport.refunded
                THEN /\ req' = [req EXCEPT ![r].pc = "deduct",
                                           ![r].cachedReport = cachedReport]
                     /\ CallDeduct(r, req[r].user_id)
                ELSE /\ req' = [req EXCEPT ![r].pc = "done",
                                   ![r].cachedReport = cachedReport,
                                   ![r].response = CachedResponse(TRUE, cachedReport.id)]
                     /\ UNCHANGED dt
       ELSE /\ req' = [req EXCEPT ![r].pc = "preflight"]
            /\ UNCHANGED dt
    /\ UNCHANGED <<tokens, rowLock, token_transactions, reports, nextReportId,
                   error_logs, now, jobs, nextJobId, client, deployed, callback_log, faults>>

\* select('*').eq('id', cachedReport.id).single(); a row that is gone is
\* an error and falls through to STEP 2
FetchFullReport(r) ==
    /\ req[r].pc = "fetch"
    /\ IF req[r].cachedReport.id \in ReportIds
       THEN req' = [req EXCEPT ![r].pc = "insert",
                       ![r].fullReport = ReportById(req[r].cachedReport.id)]
       ELSE req' = [req EXCEPT ![r].pc = "preflight"]
    /\ UNCHANGED <<tokens, rowLock, token_transactions, reports, nextReportId,
                   error_logs, now, dt, jobs, nextJobId, client, deployed, callback_log, faults>>

\* a verbatim copy of the source row under a new id and owner, cost
\* columns included
CopyRow(fullReport, user_id, id, created_at) ==
    [fullReport EXCEPT !.id = id, !.user_id = user_id,
                       !.created_at = created_at]

\* the row inserted for the requesting user
CloneRow(fullReport, user_id, id, created_at) ==
    [id |-> id,
     user_id |-> user_id,
     ticker |-> fullReport.ticker,
     filing_refs |-> fullReport.filing_refs,
     extraction_success |-> fullReport.extraction_success,
     sections_extracted |-> fullReport.sections_extracted,
     extraction_issues |-> fullReport.extraction_issues,
     ai_summaries |-> fullReport.ai_summaries,
     tokens_used |-> 1,
     refunded |-> fullReport.refunded,
     ai_cost_usd |-> 0,
     total_tokens_consumed |-> 0,
     created_at |-> created_at]

\* every cache hit is charged
AlwaysCharged(cachedReport) == TRUE

\* whether the cache hit is charged
Chargeable(cachedReport) == ~cachedReport.refunded

InsertClone(r) ==
    /\ req[r].pc = "insert"
    /\ LET newReport == CloneRow(req[r].fullReport, req[r].user_id,
                                 nextReportId, now) IN
       /\ reports' = reports \cup {newReport}
       /\ nextReportId' = nextReportId + 1
       /\ IF Chargeable(req[r].cachedReport)
          THEN /\ req' = [req EXCEPT ![r].pc = "deduct",
                                     ![r].newReport = newReport.id]
               /\ CallDeduct(r, req[r].user_id)
          ELSE /\ req' = [req EXCEPT ![r].pc = "done",
                             ![r].newReport = newReport.id,
                             ![r].response = CachedResponse(TRUE, newReport.id)]
               /\ UNCHANGED dt
    /\ UNCHANGED <<tokens, rowLock, token_transactions, error_logs, now,
                   jobs, nextJobId, client, deployed, callback_log, faults>>

\* token_transactions.report_id ... ON DELETE SET NULL
SetNullReport(log, id) ==
    [i \in DOMAIN log |->
        IF log[i].report_id = id THEN [log[i] EXCEPT !.report_id = NULL]
        ELSE log[i]]

\* a delete that matches no row
DeleteNothing(rows, id) == rows

\* reports.delete().eq('id', id)
DeleteReport(rows, id) == {row \in rows : row.id # id}

\* tokenError: the service variant deletes the clone it inserted
ChargeFailed(r) ==
    /\ req[r].pc = "deduct"
    /\ dt[r].pc = "raised"
    /\ IF deployed = "service"
       THEN /\ reports' = DeleteReport(reports, req[r].newReport)
            /\ token_transactions' =
                   SetNullReport(token_transactions, req[r].newReport)
       ELSE UNCHANGED <<reports, token_transactions>>
    /\ Return(r, ErrorResponse(402, "insufficient_tokens"))
    /\ UNCHANGED <<tokens, rowLock, nextReportId, error_logs, now, dt, jobs,
                   nextJobId, client, deployed, callback_log, faults>>

UsageTxn(user_id, report_id) ==
    [user_id |-> user_id, report_id |-> report_id,
     transaction_type |-> "usage", tokens_amount |-> -1]

\* the row a cache hit hands to the caller
ServedReport(r) ==
    IF deployed = "service" THEN req[r].newReport ELSE req[r].cachedReport.id

\* token_transactions.insert({... 'usage', -1 ...}), then the 200 response
LogUsage(r) ==
    /\ req[r].pc = "deduct"
    /\ dt[r].pc = "returned"
    /\ token_transactions' =
           Append(token_transactions, UsageTxn(req[r].user_id, ServedReport(r)))
    /\ Return(r, CachedResponse(FALSE, ServedReport(r)))
    /\ UNCHANGED <<tokens, rowLock, reports, nextReportId, error_logs, now,
                   dt, jobs, nextJobId, client, deployed, callback_log, faults>>

\* a pre-flight check that lets every account through
PreflightOpen(r) ==
    /\ req[r].pc = "preflight"
    /\ req' = [req EXCEPT ![r].pc = "dispatch",
                          ![r].profile = tokens[req[r].user_id]]
    /\ UNCHANGED <<tokens, rowLock, token_transactions, reports, nextReportId,
                   error_logs, now, dt, jobs, nextJobId, client, deployed, callback_log, faults>>

\* STEP 2: profiles.select('tokens_remaining'), the pre-flight check
Preflight(r) ==
    /\ req[r].pc = "preflight"
    /\ LET profile == tokens[req[r].user_id] IN
       IF profile < 1
       THEN req' = [req EXCEPT ![r].pc = "done", ![r].profile = profile,
                       ![r].response = ErrorResponse(402, "insufficient_tokens")]
       ELSE req' = [req EXCEPT ![r].pc = "dispatch", ![r].profile = profile]
    /\ UNCHANGED <<tokens, rowLock, token_transactions, reports, nextReportId,
                   error_logs, now, dt, jobs, nextJobId, client, deployed, callback_log, faults>>

----------------------------------------------------------------------------
(* quality_validator.py.  A section's content is kept as what the checks   *)
(* read of it: len(content.split()) and the number of those words that     *)
(* hold a digit.  filing['sections'] is kept in dict order.                *)

required_sections == <<"Item 1", "Item 1A", "Item 7", "Item 8">>

min_word_counts(section_name) ==
    CASE section_name = "Item 1" -> 1000
      [] section_name = "Item 1A" -> 5000
      [] section_name = "Item 7" -> 5000
      [] section_name = "Item 8" -> 10000
      [] OTHER -> 0

HasMinimum(section_name) ==
    section_name \in {"Item 1", "Item 1A", "Item 7", "Item 8"}

SectionNames(filing) ==
    {filing.sections[i].name : i \in DOMAIN filing.sections}

Issue(kind, section, missing, words, min_words) ==
    [kind |-> kind, section |-> section, missing |-> missing,
     words |-> words, min_words |-> min_words]

RECURSIVE Concat(_)
Concat(ss) == IF ss = <<>> THEN <<>> ELSE Head(ss) \o Concat(Tail(ss))

\* a presence check that tolerates one missing section
MissingSeveral(filing) ==
    LET missing == SelectSeq(required_sections,
                             LAMBDA n : n \notin SectionNames(filing))
    IN  IF Len(missing) > 1
        THEN <<Issue("Missing sections", "", missing, 0, 0)>>
        ELSE <<>>

\* Check 1: all required sections present
MissingIssues(filing) ==
    LET missing == SelectSeq(required_sections,
                             LAMBDA n : n \notin SectionNames(filing))
    IN  IF missing # <<>>
        THEN <<Issue("Missing sections", "", missing, 0, 0)>>
        ELSE <<>>

\* a length check that also rejects a section of exactly the minimum
AtMostMinimum(sec) ==
    HasMinimum(sec.name) /\ sec.words <= min_word_counts(sec.name)

\* Check 2: minimum content length
TooShort(sec) ==
    HasMinimum(sec.name) /\ sec.words < min_word_counts(sec.name)

\* a length check that stops at the first short section of a filing
FirstShortIssue(filing) ==
    LET all == Concat([i \in DOMAIN filing.sections |->
                   IF TooShort(filing.sections[i])
                   THEN <<Issue("Content too short", filing.sections[i].name,
                                <<>>, filing.sections[i].words,
                                min_word_counts(filing.sections[i].name))>>
                   ELSE <<>>])
    IN  IF all = <<>> THEN <<>> ELSE <<Head(all)>>

ShortIssues(filing) ==
    Concat([i \in DOMAIN filing.sections |->
        IF TooShort(filing.sections[i])
        THEN <<Issue("Content too short", filing.sections[i].name, <<>>,
                     filing.sections[i].words,
                     min_word_counts(filing.sections[i].name))>>
        ELSE <<>>])

\* a density check that also flags a section at exactly 80%
AtLeastEighty(sec) ==
    sec.words > 0 /\ 10 * sec.number_words >= 8 * sec.words

\* Check 3: number_words / len(words) > 0.8, for a section with words
MostlyNumbers(sec) ==
    sec.words > 0 /\ 10 * sec.number_words > 8 * sec.words

DensityIssues(filing) ==
    Concat([i \in DOMAIN filing.sections |->
        IF MostlyNumbers(filing.sections[i])
        THEN <<Issue("Appears to be mostly tables/numbers",
                     filing.sections[i].name, <<>>, 0, 0)>>
        ELSE <<>>])

\* a summary check that looks into the report store first
SummaryIssuesUnlessStored(ai_results) ==
    IF ai_results.summaries = <<>> /\ reports = {}
    THEN <<Issue("No AI summaries generated", "", <<>>, 0, 0)>>
    ELSE <<>>

\* Check 4: AI summaries generated
SummaryIssues(ai_results) ==
    IF ai_results.summaries = <<>>
    THEN <<Issue("No AI summaries generated", "", <<>>, 0, 0)>>
    ELSE <<>>

\* a validator that collects the issues and passes the extraction anyway
validate_lenient(filings, ai_results) ==
    LET issues ==
            Concat([i \in DOMAIN filings |-> MissingIssues(filings[i])])
         \o Concat([i \in DOMAIN filings |-> ShortIssues(filings[i])])
         \o Concat([i \in DOMAIN filings |-> DensityIssues(filings[i])])
         \o SummaryIssues(ai_results)
    IN  [is_valid |-> TRUE, issues |-> issues]

validate_extraction(filings, ai_results) ==
    LET issues ==
            Concat([i \in DOMAIN filings |-> MissingIssues(filings[i])])
         \o Concat([i \in DOMAIN filings |-> ShortIssues(filings[i])])
         \o Concat([i \in DOMAIN filings |-> DensityIssues(filings[i])])
         \o SummaryIssues(ai_results)
    IN  [is_valid |-> Len(issues) = 0, issues |-> issues]

----------------------------------------------------------------------------
(* What the external adapters hand to the worker *)

Section(name, words, number_words) ==
    [name |-> name, words |-> words, number_words |-> number_words]

FullSections ==
    [i \in DOMAIN required_sections |->
        Section(required_sections[i], min_word_counts(required_sections[i]), 0)]

Filing(accession, sections) ==
    [accession |-> accession, sections |-> sections]

NewerFiling == Filing("acc-new", FullSections)
OlderFiling == Filing("acc-old", FullSections)
\* a newer filing from which Item 7 could not be extracted
PartialFiling ==
    Filing("acc-new", SelectSeq(FullSections, LAMBDA sec : sec.name # "Item 7"))

\* SECFetcher.get_10k_sections: newest first
FetchResults ==
    {<<NewerFiling, OlderFiling>>, <<PartialFiling, OlderFiling>>, <<NewerFiling>>}

\* the sections an extraction can hold, in dict order: the required ones
\* and one the validator has no minimum for
ExtractedNames == required_sections \o <<"Item 9A">>

\* the length of a section as it should be
FullWords(name) ==
    IF HasMinimum(name) THEN min_word_counts(name) ELSE OtherWords

\* what an extraction can make of a section: one word short, a stub, at
\* exactly 80% number words, just above 80%, empty, or a stub of numbers
Defects(name) ==
    <<Section(name, FullWords(name) - 1, 0),
      Section(name, StubWords, 0),
      Section(name, FullWords(name), (8 * FullWords(name)) \div 10),
      Section(name, FullWords(name), (8 * FullWords(name)) \div 10 + 1),
      Section(name, 0, 0),
      Section(name, StubWords, StubWords)>>

NotExtracted == Section("", 0, 0)

\* the sections of a filing in which the names at positions odd came out
\* as choice says: 0 for not extracted, else a defect
ExtractedSections(odd, choice) ==
    SelectSeq([i \in DOMAIN ExtractedNames |->
                  IF i \in odd
                  THEN IF choice[i] = 0 THEN NotExtracted
                       ELSE Defects(ExtractedNames[i])[choice[i]]
                  ELSE Section(ExtractedNames[i],
                               FullWords(ExtractedNames[i]), 0)],
              LAMBDA sec : sec # NotExtracted)

\* SECFetcher.get_10k_sections: the filings with at most n sections that
\* are missing or defective
Extractions(accession, n) ==
    UNION {{Filing(accession, ExtractedSections(odd, choice)) :
                choice \in [odd -> 0..Len(Defects("Item 1"))]} :
           odd \in {s \in SUBSET DOMAIN ExtractedNames : Cardinality(s) <= n}}

\* AIAnalyzer.analyze_all_sections
AiResult(filings) ==
    [summaries |-> [i \in DOMAIN filings[1].sections |-> "summary"],
     total_cost_usd |-> SummaryCost,
     total_tokens |-> SummaryTokens]

NoAiResult == [summaries |-> <<>>, total_cost_usd |-> 0, total_tokens |-> 0]
\* what the analyzer can hand back: summaries, or none
AiResults(filings) == {AiResult(filings), NoAiResult}
NoQuality == [is_valid |-> FALSE, issues |-> <<>>]

----------------------------------------------------------------------------
(* database.py: SupabaseClient *)

\* create_report: the inserted row
ReportRow(id, user_id, ticker, filings, quality_result, ai_results, created_at) ==
    [id |-> id,
     user_id |-> user_id,
     ticker |-> ticker,
     filing_refs |-> <<filings[1].accession, filings[2].accession>>,
     extraction_success |-> quality_result.is_valid,
     sections_extracted |->
         [i \in DOMAIN filings[1].sections |-> filings[1].sections[i].name],
     extraction_issues |-> quality_result.issues,
     ai_summaries |-> ai_results.summaries,
     tokens_used |-> 1,
     refunded |-> FALSE,
     ai_cost_usd |-> ai_results.total_cost_usd,
     total_tokens_consumed |-> ai_results.total_tokens,
     created_at |-> created_at]

\* create_token_refund, statement 1: reports.update({'refunded': True})
MarkRefunded(rows, report_id) ==
    {IF row.id = report_id THEN [row EXCEPT !.refunded = TRUE] ELSE row :
        row \in rows}

\* create_token_refund, statement 2: the refund transaction
RefundTxn(user_id, report_id) ==
    [user_id |-> user_id, report_id |-> report_id,
     transaction_type |-> "refund", tokens_amount |-> 1]

\* create_token_refund, statement 3: rpc('increment_tokens', amount 1).
\* The function is not among the sources; it adds `amount` to the balance
\* in one UPDATE, which waits for the row lock like any other.
increment_tokens(balance, amount) == balance + amount

\* create_error_log: the inserted row
ErrorLogRow(user_id, ticker, error_message) ==
    [user_id |-> user_id, ticker |-> ticker,
     error_type |-> "extraction_failed", error_message |-> error_message,
     status |-> "open"]

----------------------------------------------------------------------------
(* app.py generate_report and worker.py process_job *)

NoJob ==
    [status |-> "none", progress |-> 0, ticker |-> "", user_id |-> "",
     pc |-> "none", filings |-> <<>>, ai_results |-> NoAiResult,
     quality_result |-> NoQuality, report_id |-> NULL, error |-> "",
     callbacks |-> 0]

\* STEP 2, continued: the worker is called, app.py queues the job and
\* starts its thread, and the job id is returned with 202
Dispatch(r) ==
    /\ req[r].pc = "dispatch"
    /\ LET jobId == nextJobId IN
       /\ nextJobId' = nextJobId + 1
       /\ jobs' = [jobs EXCEPT ![jobId] =
                      [NoJob EXCEPT !.status = "queued", !.progress = 0,
                                    !.ticker = req[r].tickerUpper,
                                    !.user_id = req[r].user_id,
                                    !.pc = "start"]]
       /\ req' = [req EXCEPT ![r].pc = "done", ![r].jobId = jobId,
                             ![r].response = AcceptedResponse(jobId)]
    /\ UNCHANGED <<tokens, rowLock, token_transactions, reports, nextReportId,
                   error_logs, now, dt, client, deployed, callback_log, faults>>

\* a call inside the try block raises: control goes to the except clause
Raise(j, error) ==
    /\ faults < MaxFaults
    /\ faults' = faults + 1
    /\ jobs' = [jobs EXCEPT ![j].pc = "except", ![j].error = error]

\* the step goes through
Proceed(j, job) ==
    /\ jobs' = [jobs EXCEPT ![j] = job]
    /\ UNCHANGED faults

ledgerVars == <<tokens, rowLock, token_transactions>>
reportVars == <<reports, nextReportId>>
edgeVars == <<req, dt, nextJobId, client, deployed, now>>

\* jobs[job_id] = {'status': 'processing', 'progress': 10, ...}
JobStart(j) ==
    /\ jobs[j].pc = "start"
    /\ Proceed(j, [jobs[j] EXCEPT !.status = "processing", !.progress = 10,
                                  !.pc = "fetch"])
    /\ UNCHANGED <<ledgerVars, reportVars, error_logs, edgeVars, callback_log>>

\* Step 1: fetch; fewer than two filings raises
JobFetch(j) ==
    /\ jobs[j].pc = "fetch"
    /\ \/ Raise(j, "fetch")
       \/ \E filings \in FetchResults :
            IF Len(filings) < 2
            THEN /\ jobs' = [jobs EXCEPT ![j].pc = "except",
                                         ![j].error = "Need 2 filings"]
                 /\ UNCHANGED faults
            ELSE Proceed(j, [jobs[j] EXCEPT !.filings = filings,
                                            !.progress = 30, !.pc = "diff"])
    /\ UNCHANGED <<ledgerVars, reportVars, error_logs, edgeVars, callback_log>>

\* Step 2: diff analysis (its result is read only by the summarizer)
JobDiff(j) ==
    /\ jobs[j].pc = "diff"
    /\ \/ Raise(j, "diff")
       \/ Proceed(j, [jobs[j] EXCEPT !.progress = 50, !.pc = "summarize"])
    /\ UNCHANGED <<ledgerVars, reportVars, error_logs, edgeVars, callback_log>>

\* a worker that debits the account before it calls the summarizer
DebitThenSummarize(j) ==
    /\ jobs[j].pc = "summarize"
    /\ LockFree(jobs[j].user_id)
    /\ tokens' = [tokens EXCEPT ![jobs[j].user_id] = @ - 1]
    /\ token_transactions' = Append(token_transactions,
           UsageTxn(jobs[j].user_id, NULL))
    /\ Proceed(j, [jobs[j] EXCEPT !.ai_results = AiResult(jobs[j].filings),
                                  !.progress = 80, !.pc = "validate"])
    /\ UNCHANGED <<rowLock, reportVars, error_logs, edgeVars, callback_log>>
\* Step 3: AI summaries
JobSummarize(j) ==
    /\ jobs[j].pc = "summarize"
    /\ \/ Raise(j, "summarize")
       \/ Proceed(j, [jobs[j] EXCEPT !.ai_results = AiResult(jobs[j].filings),
                                     !.progress = 80, !.pc = "validate"])
    /\ UNCHANGED <<ledgerVars, reportVars, error_logs, edgeVars, callback_log>>

\* Step 4: validate quality
JobValidate(j) ==
    /\ jobs[j].pc = "validate"
    /\ Proceed(j, [jobs[j] EXCEPT
           !.quality_result =
               validate_extraction(jobs[j].filings, jobs[j].ai_results),
           !.progress = 90, !.pc = "persist"])
    /\ UNCHANGED <<ledgerVars, reportVars, error_logs, edgeVars, callback_log>>

\* a worker that refunds only reports with more than one issue
SeveralIssues(quality_result) == Len(quality_result.issues) > 1

\* after create_report: refund when the quality check failed
NeedsRefund(quality_result) == ~quality_result.is_valid

\* where process_job goes after db.create_report
AfterPersist(quality_result) ==
    IF NeedsRefund(quality_result) THEN "refund_mark" ELSE "complete"

\* Step 5: db.create_report
JobPersist(j) ==
    /\ jobs[j].pc = "persist"
    /\ \/ /\ Raise(j, "persist")
          /\ UNCHANGED reportVars
       \/ /\ reports' = reports \cup
                 {ReportRow(nextReportId, jobs[j].user_id, jobs[j].ticker,
                            jobs[j].filings, jobs[j].quality_result,
                            jobs[j].ai_results, now)}
          /\ nextReportId' = nextReportId + 1
          /\ Proceed(j, [jobs[j] EXCEPT !.report_id = nextReportId,
                            !.pc = AfterPersist(jobs[j].quality_result)])
    /\ UNCHANGED <<ledgerVars, error_logs, edgeVars, callback_log>>

\* Step 6: db.create_token_refund, three statements
JobRefundMark(j) ==
    /\ jobs[j].pc = "refund_mark"
    /\ \/ /\ Raise(j, "refund")
          /\ UNCHANGED reports
       \/ /\ reports' = MarkRefunded(reports, jobs[j].report_id)
          /\ Proceed(j, [jobs[j] EXCEPT !.pc = "refund_txn"])
    /\ UNCHANGED <<ledgerVars, nextReportId, error_logs, edgeVars, callback_log>>

JobRefundTxn(j) ==
    /\ jobs[j].pc = "refund_txn"
    /\ \/ /\ Raise(j, "refund")
          /\ UNCHANGED token_transactions
       \/ /\ token_transactions' = Append(token_transactions,
                 RefundTxn(jobs[j].user_id, jobs[j].report_id))
          /\ Proceed(j, [jobs[j] EXCEPT !.pc = "refund_increment"])
    /\ UNCHANGED <<tokens, rowLock, reportVars, error_logs, edgeVars,
                   callback_log>>

JobRefundIncrement(j) ==
    /\ jobs[j].pc = "refund_increment"
    /\ \/ /\ Raise(j, "refund")
          /\ UNCHANGED tokens
       \/ /\ LockFree(jobs[j].user_id)
          /\ tokens' = [tokens EXCEPT ![jobs[j].user_id] =
                           increment_tokens(tokens[jobs[j].user_id], 1)]
          /\ Proceed(j, [jobs[j] EXCEPT !.pc = "complete"])
    /\ UNCHANGED <<rowLock, token_transactions, reportVars, error_logs,
                   edgeVars, callback_log>>

\* jobs[job_id]['progress'] = 100; jobs[job_id]['status'] = 'completed'
JobComplete(j) ==
    /\ jobs[j].pc = "complete"
    /\ Proceed(j, [jobs[j] EXCEPT !.progress = 100, !.status = "completed",
                                  !.pc = "callback"])
    /\ UNCHANGED <<ledgerVars, reportVars, error_logs, edgeVars, callback_log>>

\* a handler that answers 409 to a second notification for a job
RejectDuplicate(log, job_id, status) ==
    Append(log, [job_id |-> job_id, status |-> status,
                 response |-> IF \E i \in DOMAIN log : log[i].job_id = job_id
                              THEN 409 ELSE 200])

\* report-callback: parses the notification, logs it, answers 200
report_callback(log, job_id, status) ==
    Append(log, [job_id |-> job_id, status |-> status, response |-> 200])

\* report-callback, catch: req.json() throws on a body that is not JSON
callback_error(log) ==
    Append(log, [job_id |-> NULL, status |-> "", response |-> 500])

\* the status values a notification may carry
CallbackStatuses == {"completed", "failed", "queued"}

\* a notification arrives from any sender: any job id (NULL: none the
\* orchestrator knows), any status, in any order, or a malformed body
CallbackArrives ==
    /\ Len(callback_log) < MaxCallbacks
    /\ \/ \E job_id \in JobIds \cup {NULL}, status \in CallbackStatuses :
            callback_log' = report_callback(callback_log, job_id, status)
       \/ callback_log' = callback_error(callback_log)
    /\ UNCHANGED <<tokens, rowLock, token_transactions, reports, nextReportId,
                   error_logs, now, req, dt, jobs, nextJobId, client, deployed,
                   faults>>

\* Step 7: requests.post(callback_url, ..., timeout=10), inside the try
JobCallback(j) ==
    /\ jobs[j].pc = "callback"
    /\ \/ /\ faults < MaxFaults
          /\ faults' = faults + 1
          /\ jobs' = [jobs EXCEPT ![j].pc = "except", ![j].error = "callback",
                                  ![j].callbacks = jobs[j].callbacks + 1]
          /\ UNCHANGED callback_log
       \/ /\ Proceed(j, [jobs[j] EXCEPT !.pc = "done",
                                        !.callbacks = jobs[j].callbacks + 1])
          /\ callback_log' = report_callback(callback_log, j, "completed")
    /\ UNCHANGED <<ledgerVars, reportVars, error_logs, edgeVars>>

\* except: status failed, db.create_error_log.  The insert is a call of
\* the handler itself: when it raises nothing catches it, the thread ends
\* with the status set and neither a log row nor a callback
JobExcept(j) ==
    /\ jobs[j].pc = "except"
    /\ \/ /\ faults < MaxFaults
          /\ faults' = faults + 1
          /\ jobs' = [jobs EXCEPT ![j].status = "failed", ![j].pc = "done"]
          /\ UNCHANGED error_logs
       \/ /\ Proceed(j, [jobs[j] EXCEPT !.status = "failed",
                                        !.pc = "failure_callback"])
          /\ error_logs' = Append(error_logs,
                 ErrorLogRow(jobs[j].user_id, jobs[j].ticker, jobs[j].error))
    /\ UNCHANGED <<ledgerVars, reportVars, edgeVars, callback_log>>

\* except, continued: the failure callback; its own failure is swallowed
JobFailureCallback(j) ==
    /\ jobs[j].pc = "failure_callback"
    /\ Proceed(j, [jobs[j] EXCEPT !.pc = "done",
                                  !.callbacks = jobs[j].callbacks + 1])
    /\ \/ UNCHANGED callback_log
       \/ callback_log' = report_callback(callback_log, j, "failed")
    /\ UNCHANGED <<ledgerVars, reportVars, error_logs, edgeVars>>

----------------------------------------------------------------------------
(* Time *)

Tick ==
    /\ now + TickDays <= MaxTicks * TickDays
    /\ now' = now + TickDays
    /\ UNCHANGED <<tokens, rowLock, token_transactions, reports, nextReportId,
                   error_logs, req, dt, jobs, nextJobId, client, deployed,
                   callback_log, faults>>

----------------------------------------------------------------------------
(* The pipeline: requests, the ledger function they call, jobs, time *)

DeductSelect(s) ==
    /\ deduct_token_select(s)
    /\ UNCHANGED <<token_transactions, reports, nextReportId, error_logs, now,
                   req, jobs, nextJobId, client, deployed, callback_log, faults>>

DeductBody(s) ==
    /\ deduct_token_body(s)
    /\ UNCHANGED <<token_transactions, reports, nextReportId, error_logs, now,
                   req, jobs, nextJobId, client, deployed, callback_log, faults>>

----------------------------------------------------------------------------
(* stripe-webhook, checkout.session.completed: the purchase credit *)

PurchaseTxn(user_id, amount) ==
    [user_id |-> user_id, report_id |-> NULL,
     transaction_type |-> "purchase", tokens_amount |-> amount]

\* newBalance = (profile?.tokens_remaining || 0) + tokensPurchased
NewBalance(profile, tokensPurchased) == profile + tokensPurchased

----------------------------------------------------------------------------
(* Callers that drive the ledger operations directly: deduct_token (it is  *)
(* granted to every authenticated user), SupabaseClient.create_token_refund*)
(* and the payment webhook.                                                *)

LedgerOps == {"deduct", "refund", "purchase"}

IdleClient ==
    [pc |-> "idle", op |-> "", user_id |-> "", report_id |-> NULL,
     amount |-> 0, profile |-> 0]

otherVars == <<error_logs, now, req, jobs, nextJobId, deployed, callback_log,
               faults>>

ClientCall(c) ==
    /\ client[c].pc = "idle"
    /\ \E op \in LedgerOps, u \in Users :
         CASE op = "deduct" ->
                /\ client' = [client EXCEPT ![c] =
                       [IdleClient EXCEPT !.pc = "deduct", !.op = op,
                                          !.user_id = u]]
                /\ CallDeduct(c, u)
           [] op = "refund" ->
                /\ \E row \in reports :
                     /\ row.user_id = u
                     /\ client' = [client EXCEPT ![c] =
                            [IdleClient EXCEPT !.pc = "refund_mark", !.op = op,
                                 !.user_id = u, !.report_id = row.id]]
                /\ UNCHANGED dt
           [] op = "purchase" ->
                /\ \E n \in 1..MaxPurchase :
                     client' = [client EXCEPT ![c] =
                         [IdleClient EXCEPT !.pc = "purchase_read", !.op = op,
                                            !.user_id = u, !.amount = n]]
                /\ UNCHANGED dt
    /\ UNCHANGED <<ledgerVars, reportVars, otherVars>>

\* rpc('deduct_token', {p_user_id}) by a caller of its own: the function
\* is granted to every authenticated user and takes any account id
ClientCallDeduct(c) ==
    /\ client[c].pc = "idle"
    /\ \E u \in Users :
         /\ client' = [client EXCEPT ![c] =
                [IdleClient EXCEPT !.pc = "deduct", !.op = "deduct",
                                   !.user_id = u]]
         /\ CallDeduct(c, u)
    /\ UNCHANGED <<ledgerVars, reportVars, otherVars>>

ClientDeductDone(c) ==
    /\ client[c].pc = "deduct"
    /\ dt[c].pc \in {"returned", "raised"}
    /\ client' = [client EXCEPT ![c].pc = "done"]
    /\ UNCHANGED <<ledgerVars, reportVars, dt, otherVars>>

\* create_token_refund(user_id, report_id, reason), statement by statement
ClientRefundMark(c) ==
    /\ client[c].pc = "refund_mark"
    /\ reports' = MarkRefunded(reports, client[c].report_id)
    /\ client' = [client EXCEPT ![c].pc = "refund_txn"]
    /\ UNCHANGED <<ledgerVars, nextReportId, dt, otherVars>>

ClientRefundTxn(c) ==
    /\ client[c].pc = "refund_txn"
    /\ token_transactions' = Append(token_transactions,
           RefundTxn(client[c].user_id, client[c].report_id))
    /\ client' = [client EXCEPT ![c].pc = "refund_increment"]
    /\ UNCHANGED <<tokens, rowLock, reportVars, dt, otherVars>>

ClientRefundIncrement(c) ==
    /\ client[c].pc = "refund_increment"
    /\ LockFree(client[c].user_id)
    /\ tokens' = [tokens EXCEPT ![client[c].user_id] =
                     increment_tokens(tokens[client[c].user_id], 1)]
    /\ client' = [client EXCEPT ![c].pc = "done"]
    /\ UNCHANGED <<rowLock, token_transactions, reportVars, dt, otherVars>>

\* the webhook: select tokens_remaining, update it, insert the transaction
PurchaseRead(c) ==
    /\ client[c].pc = "purchase_read"
    /\ client' = [client EXCEPT ![c].pc = "purchase_update",
                                ![c].profile = tokens[client[c].user_id]]
    /\ UNCHANGED <<ledgerVars, reportVars, dt, otherVars>>

PurchaseUpdate(c) ==
    /\ client[c].pc = "purchase_update"
    /\ LockFree(client[c].user_id)
    /\ tokens' = [tokens EXCEPT ![client[c].user_id] =
                     NewBalance(client[c].profile, client[c].amount)]
    /\ client' = [client EXCEPT ![c].pc = "purchase_log"]
    /\ UNCHANGED <<rowLock, token_transactions, reportVars, dt, otherVars>>

PurchaseLog(c) ==
    /\ client[c].pc = "purchase_log"
    /\ token_transactions' = Append(token_transactions,
           PurchaseTxn(client[c].user_id, client[c].amount))
    /\ client' = [client EXCEPT ![c].pc = "done"]
    /\ UNCHANGED <<tokens, rowLock, reportVars, dt, otherVars>>

----------------------------------------------------------------------------
(* Initial states *)

\* balances come from purchases, each logged
InitialLog(balance) ==
    Concat([i \in DOMAIN UserList |->
        IF balance[UserList[i]] > 0
        THEN <<PurchaseTxn(UserList[i], balance[UserList[i]])>>
        ELSE <<>>])

Invocations(n) == {<<"req", i>> : i \in 1..n}

\* a report left by an earlier run of process_job for owner, accepted or
\* rejected by the quality check
EarlierReport(owner, filings) ==
    ReportRow(1, owner, "TST", filings,
              validate_extraction(filings, AiResult(filings)),
              AiResult(filings), 0)

\* every process idle, no job
InitIdle ==
    /\ rowLock = [u \in Users |-> NoSession]
    /\ error_logs = <<>>
    /\ now = 0
    /\ dt = [s \in Sessions |-> IdleFrame]
    /\ jobs = [j \in JobIds |-> NoJob]
    /\ nextJobId = 1
    /\ client = [c \in Clients |-> IdleClient]
    /\ callback_log = <<>>

InitCommon ==
    /\ InitIdle
    /\ faults = 0

\* the store before any report was generated
EmptyStore(balance) ==
    /\ reports = {}
    /\ nextReportId = 1
    /\ tokens = balance
    /\ token_transactions = InitialLog(balance)

\* the store after an earlier run for "TST" by u1 that was accepted
AcceptedStore(balance) ==
    /\ reports = {EarlierReport("u1", <<NewerFiling, OlderFiling>>)}
    /\ nextReportId = 2
    /\ tokens = balance
    /\ token_transactions = InitialLog(balance)

\* the store after an earlier run for "TST" by u1 that was rejected, once
\* create_token_refund has run
RefundedStore(balance) ==
    /\ reports = MarkRefunded(
           {EarlierReport("u1", <<PartialFiling, OlderFiling>>)}, 1)
    /\ nextReportId = 2
    /\ tokens = [balance EXCEPT !["u1"] = increment_tokens(@, 1)]
    /\ token_transactions = Append(InitialLog(balance), RefundTxn("u1", 1))

\* a report left by an accepted run for ticker, created_at days from now
PastReport(id, ticker, created_at) ==
    [EarlierReport("u1", <<NewerFiling, OlderFiling>>)
        EXCEPT !.id = id, !.ticker = ticker, !.created_at = created_at]

\* the store after runs over the past weeks: a report for "TST" one day
\* older than the window, one exactly as old as the window, a report for
\* another entity stored today, and possibly one for "TST" stored today
SeasonedStore(balance) ==
    /\ \E today \in SUBSET {PastReport(4, "TST", 0)} :
          reports = {PastReport(1, "TST", 0 - (WindowDays + 1)),
                     PastReport(2, "TST", 0 - WindowDays),
                     PastReport(3, "OTH", 0)} \cup today
    /\ nextReportId = 5
    /\ tokens = balance
    /\ token_transactions = InitialLog(balance)

\* one invocation of generate-report
Init ==
    /\ InitCommon
    /\ \E balance \in [Users -> 0..MaxInitBalance] :
         \/ EmptyStore(balance)
         \/ AcceptedStore(balance)
         \/ RefundedStore(balance)
         \/ SeasonedStore(balance)
    /\ req = [r \in Invocations(1) |-> IdleRequest]
    /\ deployed \in Variants

\* concurrent invocations that find an earlier report
InitCache ==
    /\ InitCommon
    /\ \E balance \in [Users -> 0..MaxInitBalance] :
         \/ AcceptedStore(balance)
         \/ RefundedStore(balance)
    /\ req = [r \in Requests |-> IdleRequest]
    /\ deployed \in Variants

\* concurrent invocations on an empty store and one invocation that comes
\* later, in runs where no call of the worker raises
InitMiss ==
    /\ InitIdle
    /\ faults = MaxFaults
    /\ \E balance \in [Users -> 0..MaxInitBalance] : EmptyStore(balance)
    /\ req = [r \in Requests \cup {Later} |-> IdleRequest]
    /\ deployed \in Variants

\* the store the callback handler runs against: reports and balances of
\* earlier runs
InitCallback ==
    /\ InitCommon
    /\ \E balance \in [Users -> 0..MaxInitBalance] :
         \/ AcceptedStore(balance)
         \/ RefundedStore(balance)
    /\ req = [r \in Invocations(0) |-> IdleRequest]
    /\ deployed = "service"

\* the jobs whose pipeline has reached the quality check
QualityJobs == 1..NumRequests

\* a request that was answered 202 with job j
AcceptedRequest(j) ==
    [IdleRequest EXCEPT !.pc = "done", !.user_id = "u1", !.ticker = "TST",
                        !.tickerUpper = "TST", !.profile = MaxInitBalance,
                        !.jobId = j, !.response = AcceptedResponse(j)]

\* process_job after Step 3, about to call validate_extraction
JobAtValidate(filings, ai_results) ==
    [NoJob EXCEPT !.status = "processing", !.progress = 80, !.ticker = "TST",
                  !.user_id = "u1", !.pc = "validate", !.filings = filings,
                  !.ai_results = ai_results]

\* runs for the same entity that were handed the same filings and
\* summaries and are about to validate them, on an empty store
InitQuality ==
    /\ rowLock = [u \in Users |-> NoSession]
    /\ error_logs = <<>>
    /\ now = 0
    /\ dt = [s \in Sessions |-> IdleFrame]
    /\ client = [c \in Clients |-> IdleClient]
    /\ callback_log = <<>>
    /\ faults = MaxFaults
    /\ EmptyStore([u \in Users |-> MaxInitBalance])
    /\ deployed = "service"
    /\ req = [r \in Requests |-> AcceptedRequest(r[2])]
    /\ nextJobId = NumRequests + 1
    /\ \E newer \in Extractions("acc-new", MaxDefects),
          older \in Extractions("acc-old", OlderDefects) :
         \E ai_results \in AiResults(<<newer, older>>) :
            jobs = [j \in JobIds |->
                       IF j \in QualityJobs
                       THEN JobAtValidate(<<newer, older>>, ai_results)
                       ELSE NoJob]

\* the ledger alone: balances, and a rejected report of each account whose
\* refund has not started
InitLedger ==
    /\ InitCommon
    /\ tokens \in [Users -> 0..MaxInitBalance]
    /\ token_transactions = InitialLog(tokens)
    /\ reports = {[EarlierReport(UserList[i], <<PartialFiling, OlderFiling>>)
                      EXCEPT !.id = i] : i \in DOMAIN UserList}
    /\ nextReportId = Len(UserList) + 1
    /\ req = [r \in Invocations(0) |-> IdleRequest]
    /\ deployed = "service"

\* accounts of which any may lack a profile row with a balance, and
\* callers of deduct_token
InitDeduct ==
    /\ InitCommon
    /\ \E balance \in [Users -> 0..MaxInitBalance], S \in SUBSET Users :
         /\ tokens = [u \in S |-> balance[u]]
         /\ token_transactions =
                InitialLog([u \in Users |-> IF u \in S THEN balance[u] ELSE 0])
    /\ reports = {}
    /\ nextReportId = 1
    /\ req = [r \in Invocations(0) |-> IdleRequest]
    /\ deployed = "service"

----------------------------------------------------------------------------
(* Next-state relations *)

RequestStep(r) ==
    \/ Receive(r)
    \/ CacheLookup(r)
    \/ FetchFullReport(r)
    \/ InsertClone(r)
    \/ DeductSelect(r)
    \/ DeductBody(r)
    \/ ChargeFailed(r)
    \/ LogUsage(r)
    \/ Preflight(r)
    \/ Dispatch(r)

JobStep(j) ==
    \/ JobStart(j)
    \/ JobFetch(j)
    \/ JobDiff(j)
    \/ JobSummarize(j)
    \/ JobValidate(j)
    \/ JobPersist(j)
    \/ JobRefundMark(j)
    \/ JobRefundTxn(j)
    \/ JobRefundIncrement(j)
    \/ JobComplete(j)
    \/ JobCallback(j)
    \/ JobExcept(j)
    \/ JobFailureCallback(j)

ClientStep(c) ==
    \/ ClientCall(c)
    \/ DeductSelect(c)
    \/ DeductBody(c)
    \/ ClientDeductDone(c)
    \/ ClientRefundMark(c)
    \/ ClientRefundTxn(c)
    \/ ClientRefundIncrement(c)
    \/ PurchaseRead(c)
    \/ PurchaseUpdate(c)
    \/ PurchaseLog(c)

\* requests, worker jobs and the clock
Next ==
    \/ \E r \in Invocations(1) : RequestStep(r)
    \/ \E j \in JobIds : JobStep(j)
    \/ Tick

\* requests and worker jobs while the cached report stays fresh
NextCache ==
    \/ \E r \in Requests : RequestStep(r)
    \/ \E j \in JobIds : JobStep(j)

\* the concurrent requests and every job are over
Settled ==
    /\ \A r \in Requests : req[r].pc = "done"
    /\ \A j \in JobIds : jobs[j].pc \in {"none", "done"}

LaterStep == Settled /\ RequestStep(Later)

\* concurrent requests on an empty store, their jobs, then a later request
NextMiss ==
    \/ \E r \in Requests : RequestStep(r)
    \/ \E j \in JobIds : JobStep(j)
    \/ LaterStep

\* the ledger operations under concurrent callers
NextLedger == \E c \in Clients : ClientStep(c)

\* direct calls of deduct_token
NextDeduct ==
    \E c \in Clients :
        \/ ClientCallDeduct(c)
        \/ DeductSelect(c)
        \/ DeductBody(c)
        \/ ClientDeductDone(c)

\* notifications reaching report-callback
NextCallback == CallbackArrives

\* the quality check and the insert that follows it
NextQuality ==
    \E j \in QualityJobs : JobValidate(j) \/ JobPersist(j)

Spec == Init /\ [][Next]_vars

SpecMiss == InitMiss /\ [][NextMiss]_vars

SpecCallback == InitCallback /\ [][NextCallback]_vars

SpecCache == InitCache /\ [][NextCache]_vars

SpecLedger == InitLedger /\ [][NextLedger]_vars

SpecQuality == InitQuality /\ [][NextQuality]_vars

SpecDeduct == InitDeduct /\ [][NextDeduct]_vars

\* every request handler and every worker thread keeps being scheduled
Fairness ==
    /\ \A r \in Invocations(1) : WF_vars(RequestStep(r))
    /\ \A j \in JobIds : WF_vars(JobStep(j))

SpecFair == Spec /\ Fairness

----------------------------------------------------------------------------
(* Properties of the ledger, the cache path and the worker *)

\* the transactions of one type linked to a report
LinkedTxns(type, report_id) ==
    SelectSeq(token_transactions,
              LAMBDA t : t.transaction_type = type /\ t.report_id = report_id)

\* what the account's transactions not linked to the report add up to
OtherAmounts(u, report_id) ==
    SumAmounts(SelectSeq(token_transactions,
                         LAMBDA t : t.user_id = u /\ t.report_id # report_id))

\* C1: every account's tokens_remaining equals the sum of the amounts of its
\* token_transactions, in every state
C1_BalanceIsSumOfTransactions ==
    \A u \in Users : tokens[u] = SumAmounts(TxnsOf(u))

\* the deduct_token calls on an account that only deduct_token callers touch
DeductCalls(u) ==
    {c \in Clients : client[c].user_id = u /\ client[c].op = "deduct"}

OnlyDeducted(u) ==
    \A c \in Clients : client[c].user_id = u => client[c].op = "deduct"

Finished(calls) == {c \in calls : dt[c].pc \in {"returned", "raised"}}

\* C2: of the concurrent deduct_token calls on an account whose balance is 1,
\* once two or more have finished exactly one has succeeded, every other one
\* has raised, and the balance is 0
C2_NoOverDebit ==
    \A u \in Users :
        (/\ OnlyDeducted(u)
         /\ SumAmounts(TxnsOf(u)) = 1
         /\ Cardinality(Finished(DeductCalls(u))) >= 2)
        => /\ Cardinality({c \in DeductCalls(u) : dt[c].pc = "returned"}) = 1
           /\ tokens[u] = 0

\* two calls have finished on a balance of 1: one succeeded, one raised
C2_TwoCallsFinished ==
    \E u \in Users :
        /\ OnlyDeducted(u)
        /\ SumAmounts(TxnsOf(u)) = 1
        /\ Cardinality(Finished(DeductCalls(u))) >= 2
        /\ \E c \in DeductCalls(u) : dt[c].pc = "raised"
        /\ tokens[u] = 0

\* C3: however often a report is refunded, it has at most one refund
\* transaction
C3_RefundIdempotent ==
    \A id \in ReportIds : Len(LinkedTxns("refund", id)) <= 1

\* C4: a report is marked refunded exactly when one refund transaction of +1
\* is linked to it
C4_RefundAtomic ==
    \A row \in reports :
        row.refunded <=>
            /\ Len(LinkedTxns("refund", row.id)) = 1
            /\ LinkedTxns("refund", row.id)[1].tokens_amount = 1

\* C5: when a job has completed with a valid quality result, one usage
\* transaction of -1 is linked to its report and the balance is one below
\* what the account's other transactions add up to
C5_FreshGenerationChargesOneToken ==
    \A j \in JobIds :
        (jobs[j].status = "completed" /\ jobs[j].quality_result.is_valid)
        => /\ Len(LinkedTxns("usage", jobs[j].report_id)) = 1
           /\ LinkedTxns("usage", jobs[j].report_id)[1].tokens_amount = -1
           /\ tokens[jobs[j].user_id] =
                  OtherAmounts(jobs[j].user_id, jobs[j].report_id) - 1

\* C6: when a job has completed with an invalid quality result, its report
\* is refunded, a usage and a refund transaction are linked to it and the
\* balance is what the account's other transactions add up to
C6_QualityRejectedCostsNothing ==
    \A j \in JobIds :
        (jobs[j].status = "completed" /\ ~jobs[j].quality_result.is_valid)
        => /\ ReportById(jobs[j].report_id).refunded
           /\ Len(LinkedTxns("usage", jobs[j].report_id)) = 1
           /\ Len(LinkedTxns("refund", jobs[j].report_id)) = 1
           /\ tokens[jobs[j].user_id] =
                  OtherAmounts(jobs[j].user_id, jobs[j].report_id)

\* the request's lookup found a fresh report that is not refunded
FoundFresh(r) ==
    /\ req[r].cachedReport.id # NULL
    /\ ~req[r].cachedReport.refunded

\* the balance the request met was at least 1: its debit went through, or
\* its pre-flight check passed
HadBalance(r) == dt[r].pc = "returned" \/ req[r].profile >= 1

UsageOf(u, report_id) ==
    SelectSeq(token_transactions,
              LAMBDA t : /\ t.transaction_type = "usage"
                         /\ t.user_id = u
                         /\ t.report_id = report_id
                         /\ t.tokens_amount = -1)

\* the finished requests of one user that were served one row
ServedHits(u, report_id) ==
    {q \in DOMAIN req :
        /\ req[q].pc = "done"
        /\ FoundFresh(q)
        /\ HadBalance(q)
        /\ req[q].user_id = u
        /\ ServedReport(q) = report_id}

\* C7: a request whose lookup found a fresh report that is not refunded, by
\* an account with balance at least 1, ends with the 200 cached response
\* naming the served row, one usage transaction of -1 per such request
\* linked to that row, and no job sent to the worker
C7_CacheHitChargesOneToken ==
    \A r \in DOMAIN req :
        (req[r].pc = "done" /\ FoundFresh(r) /\ HadBalance(r))
        => /\ req[r].response = CachedResponse(FALSE, ServedReport(r))
           /\ req[r].jobId = NULL
           /\ Len(UsageOf(req[r].user_id, ServedReport(r))) =
                  Cardinality(ServedHits(req[r].user_id, ServedReport(r)))

\* a debited cache hit has been answered
C7_HitAnswered ==
    \E r \in DOMAIN req :
        /\ req[r].pc = "done"
        /\ FoundFresh(r)
        /\ dt[r].pc = "returned"
        /\ req[r].response.status = 200

CloneStored ==
    \A r \in DOMAIN req :
        req[r].newReport \in ReportIds
        => /\ ReportById(req[r].newReport).ai_cost_usd = 0
           /\ ReportById(req[r].newReport).total_tokens_consumed = 0
           /\ ReportById(req[r].newReport).user_id = req[r].user_id

CloneInsert ==
    \A r \in DOMAIN req :
        (req[r].pc = "insert" /\ req'[r].pc # "insert")
        => /\ reports \subseteq reports'
           /\ Cardinality(reports' \ reports) = 1
           /\ \A row \in reports' \ reports :
                /\ row.id = req'[r].newReport
                /\ row.user_id = req[r].user_id
                /\ row.ticker = req[r].fullReport.ticker
                /\ row.ai_summaries = req[r].fullReport.ai_summaries
                /\ row.ai_cost_usd = 0
                /\ row.total_tokens_consumed = 0

\* C8: the row a cache hit inserts belongs to the requester, carries the
\* source's content and records no generation cost (ai_cost_usd 0,
\* total_tokens_consumed 0); inserting it changes no existing row
C8_CloneZeroCost == []CloneStored /\ [][CloneInsert]_vars

\* a user holds a clone of another user's report that had a generation cost
C8_CloneOfCostlyReport ==
    \E r \in DOMAIN req :
        /\ req[r].newReport \in ReportIds
        /\ req[r].fullReport.ai_cost_usd > 0
        /\ req[r].fullReport.user_id # req[r].user_id

HitRolledBack ==
    \A r \in DOMAIN req :
        (req[r].pc = "done" /\ FoundFresh(r) /\ dt[r].pc = "raised")
        => /\ req[r].response = ErrorResponse(402, "insufficient_tokens")
           /\ req[r].newReport \notin ReportIds
           /\ req[r].jobId = NULL
           /\ deployed = "service" =>
                  SelectSeq(token_transactions,
                            LAMBDA t : t.report_id = req[r].newReport) = <<>>

UndebitedStep ==
    \A r \in DOMAIN req :
        ((req'[r] # req[r] \/ dt'[r] # dt[r]) /\ dt'[r].pc # "returned")
        => /\ tokens' = tokens
           /\ token_transactions' = token_transactions

\* C9: a cache hit whose debit raised ends with 402 insufficient_tokens, its
\* clone is gone and no transaction names it; no step of a request whose
\* debit has not gone through changes a balance or the transaction log
C9_FailedHitRolledBack == []HitRolledBack /\ [][UndebitedStep]_vars

\* a service-variant hit was answered 402 after its clone had been inserted
C9_HitRefused ==
    \E r \in DOMAIN req :
        /\ req[r].pc = "done"
        /\ FoundFresh(r)
        /\ dt[r].pc = "raised"
        /\ req[r].newReport # NULL

\* C10: a clone of a report that is not refunded is in the store only if
\* the debit of the request that inserted it has gone through
C10_NoUnchargedClone ==
    \A r \in DOMAIN req :
        (req[r].newReport \in ReportIds /\ ~req[r].cachedReport.refunded)
        => dt[r].pc = "returned"

\* C11: every account's tokens_remaining is at least 0 in every state,
\* under every interleaving of debits, purchase credits and refunds
C11_BalanceNeverNegative == \A u \in Users : tokens[u] >= 0

\* an account that was credited and then debited stands at 0
C11_DrainedAccount ==
    \E u \in Users :
        /\ tokens[u] = 0
        /\ \E c \in Clients :
             client[c].user_id = u /\ client[c].op # "deduct"
                                   /\ client[c].pc = "done"
        /\ \E c \in Clients :
             client[c].user_id = u /\ client[c].op = "deduct"
                                   /\ dt[c].pc = "returned"

\* the step in which a deduct_token call that holds the row lock finishes
DebitOutcome ==
    \A s \in Sessions :
        (dt[s].pc = "locked" /\ dt'[s].pc # "locked")
        => IF tokens[dt[s].p_user_id] < 1
           THEN /\ dt'[s].pc = "raised"
                /\ tokens' = tokens
                /\ token_transactions' = token_transactions
           ELSE /\ dt'[s].pc = "returned"
                /\ tokens' = [tokens EXCEPT ![dt[s].p_user_id] = @ - 1]

\* C12: a deduct_token call on a balance below 1 raises and leaves every
\* balance and the transaction log as they were; a call on a balance of at
\* least 1 returns and takes exactly 1 from that account's balance
C12_FailedDebitChangesNothing == [][DebitOutcome]_vars

\* one call was refused and another went through
C12_RefusedAndServed ==
    \E c, d \in Clients : dt[c].pc = "raised" /\ dt[d].pc = "returned"

\* the moves of a job's status the worker's state machine allows
StatusMoves ==
    {<<"none", "queued">>, <<"queued", "processing">>,
     <<"processing", "completed">>, <<"processing", "failed">>}

StatusMove ==
    \A j \in JobIds :
        jobs'[j].status # jobs[j].status
        => <<jobs[j].status, jobs'[j].status>> \in StatusMoves

\* C13: a job's status only moves queued -> processing -> completed or
\* queued -> processing -> failed; a completed or failed status never changes
C13_TerminalStatesFinal == [][StatusMove]_vars

\* C14: a job that has run to its end has made exactly one callback POST
C14_OneCallbackAttempt ==
    \A j \in JobIds : jobs[j].pc = "done" => jobs[j].callbacks = 1

\* the error logs written for a job: the rows carry no job id, the job is
\* known by its user, ticker and message
ErrorLogsOf(j) ==
    SelectSeq(error_logs,
              LAMBDA row : /\ row.user_id = jobs[j].user_id
                           /\ row.ticker = jobs[j].ticker
                           /\ row.error_message = jobs[j].error)

\* C15: when the completion callback of a job has failed, the job is still
\* completed, no error log is written for it and its report is still stored
C15_CallbackFailureSwallowed ==
    \A j \in JobIds :
        (jobs[j].error = "callback" /\ jobs[j].pc \in {"failure_callback", "done"})
        => /\ jobs[j].status = "completed"
           /\ ErrorLogsOf(j) = <<>>
           /\ jobs[j].report_id \in ReportIds

\* C16: a job that ended failed has left no report and exactly one error
\* log; a job whose report is stored does not end failed
C16_FailedJobLeavesNoReport ==
    \A j \in JobIds :
        (jobs[j].status = "failed" /\ jobs[j].pc \in {"failure_callback", "done"})
        => /\ jobs[j].report_id \notin ReportIds
           /\ Len(ErrorLogsOf(j)) = 1

\* every notification that parsed was answered 200
Answered ==
    \A i \in DOMAIN callback_log :
        callback_log[i].status \in CallbackStatuses
        => callback_log[i].response = 200

\* a step of the handler changes no report, no balance and no transaction
CallbackFrame ==
    callback_log' # callback_log
    => /\ reports' = reports
       /\ tokens' = tokens
       /\ token_transactions' = token_transactions

\* C17: whatever notifications arrive (duplicates, out of order, any status,
\* any job id), report-callback leaves every report, every balance and the
\* transaction log unchanged and answers every well-formed one with success
C17_CallbackMutatesNothing == []Answered /\ [][CallbackFrame]_vars

\* a job was reported failed, then completed, then completed again
C17_DuplicateOutOfOrder ==
    \E i, k, l \in DOMAIN callback_log :
        /\ i < k /\ k < l
        /\ callback_log[i].job_id = callback_log[k].job_id
        /\ callback_log[k].job_id = callback_log[l].job_id
        /\ callback_log[i].status = "failed"
        /\ callback_log[k].status = "completed"
        /\ callback_log[l].status = "completed"
        /\ reports # {}

\* the jobs of two different requests of the concurrent ones, both with a
\* report in the store for the same entity
MissedTwice(j1, j2) ==
    /\ j1 # j2
    /\ \E r1, r2 \in Requests :
          /\ r1 # r2
          /\ req[r1].response = AcceptedResponse(j1)
          /\ req[r2].response = AcceptedResponse(j2)
    /\ jobs[j1].ticker = jobs[j2].ticker
    /\ jobs[j1].report_id \in ReportIds
    /\ jobs[j2].report_id \in ReportIds

\* the second of two runs completes: from here on a lookup for the entity
\* finds the report of the run that completed first
FirstCompletionServed ==
    \A j1, j2 \in JobIds :
        (/\ MissedTwice(j1, j2)
         /\ jobs[j1].status = "completed"
         /\ jobs[j2].status # "completed"
         /\ jobs'[j2].status = "completed")
        => Newest(FreshReports(jobs[j1].ticker))'.id = jobs[j1].report_id

OwnJobs ==
    \A r1 \in Requests \cup {Later} :
        req[r1].response.status = 202 =>
            /\ req[r1].jobId \in JobIds
            /\ req[r1].response.job_id = req[r1].jobId
            /\ jobs[req[r1].jobId].status # "none"
            /\ jobs[req[r1].jobId].ticker = req[r1].tickerUpper
            /\ \A r2 \in (Requests \cup {Later}) \ {r1} :
                   req[r2].response.status = 202 => req[r2].jobId # req[r1].jobId

\* the later requester found the report stored last by the two runs
LaterServedNewest ==
    \A j1, j2 \in JobIds :
        (/\ MissedTwice(j1, j2)
         /\ jobs[j1].ticker = req[Later].tickerUpper
         /\ jobs[j1].report_id < jobs[j2].report_id
         /\ req[Later].pc \notin {"idle", "lookup"})
        => req[Later].cachedReport.id = jobs[j2].report_id

SameEntity(a, b) == a = b \/ {a, b} = {"tst", "TST"}

\* the reports for the entity a request names that are at most 30 days old
WithinWindow(ticker) ==
    {row \in reports : SameEntity(row.ticker, ticker)
                        /\ now - row.created_at <= WindowDays}

\* the lookup of a request finds a report iff one is within the window,
\* and then the most recently created of them
LookupFinds ==
    \A r \in Invocations(1) :
        (req[r].pc = "lookup" /\ req'[r].pc # "lookup") =>
            IF WithinWindow(req[r].ticker) = {}
            THEN /\ req'[r].cachedReport = NoCached
                 /\ req'[r].pc = "preflight"
            ELSE /\ req'[r].pc \in {"fetch", "deduct", "done"}
                 /\ \E row \in WithinWindow(req[r].ticker) :
                       /\ \A other \in WithinWindow(req[r].ticker) :
                              other.created_at <= row.created_at
                       /\ req'[r].cachedReport =
                              [id |-> row.id, refunded |-> row.refunded]

\* only the report the lookup found is cloned or returned as cached
OnlyFoundServed ==
    \A r \in Invocations(1) :
        /\ req[r].fullReport.id \in {NULL, req[r].cachedReport.id}
        /\ req[r].newReport # NULL => req[r].fullReport.id # NULL
        /\ req[r].response.cached => req[r].cachedReport.id # NULL

\* a request that made its lookup is served from the cache iff the lookup
\* found a report
ServedIffFound ==
    \A r \in Invocations(1) :
        (req[r].pc \notin {"idle", "done"} /\ req'[r].pc = "done") =>
            (req'[r].response.cached <=> req'[r].cachedReport.id # NULL)

FoundRefunded(r) ==
    req[r].cachedReport.id # NULL /\ req[r].cachedReport.refunded

\* a request that found a refunded report never calls deduct_token and is
\* answered from the cache, with no usage transaction for the report it is
\* handed
ServedFree ==
    \A r \in Requests :
        FoundRefunded(r) =>
            /\ dt[r] = IdleFrame
            /\ req[r].jobId = NULL
            /\ req[r].pc = "done" =>
                   /\ req[r].response =
                          CachedResponse(TRUE, req[r].response.report_id)
                   /\ req[r].response.report_id \in ReportIds
                   /\ SelectSeq(token_transactions, LAMBDA t :
                          t.report_id = req[r].response.report_id
                          /\ t.user_id = req[r].user_id
                          /\ t.transaction_type = "usage") = <<>>

\* the steps of such a request leave every balance and the log as they are
FreeStep ==
    \A r \in Requests :
        (FoundRefunded(r) /\ req'[r] # req[r]) =>
            UNCHANGED <<tokens, token_transactions>>

\* C20: a hit on a refunded report is answered cached=true without a call
\* of deduct_token and without a transaction, at every balance
C20_RefundedSourceServedFree == []ServedFree /\ [][FreeStep]_vars

\* an account with no tokens and no transactions was served a refunded
\* report from the cache
C20_ServedAtZeroBalance ==
    \E r \in Requests :
        /\ FoundRefunded(r)
        /\ req[r].pc = "done"
        /\ req[r].response.cached
        /\ tokens[req[r].user_id] = 0
        /\ TxnsOf(req[r].user_id) = <<>>

\* a request that found no fresh report and whose account holds less than
\* one token is answered 402 by the pre-flight check, and the step changes
\* no report, balance, transaction or job
PreflightRejects ==
    \A r \in Invocations(1) :
        (/\ req[r].pc = "preflight"
         /\ req[r].cachedReport = NoCached
         /\ tokens[req[r].user_id] < 1
         /\ req'[r] # req[r])
        => /\ req'[r].pc = "done"
           /\ req'[r].response = ErrorResponse(402, "insufficient_tokens")
           /\ req'[r].jobId = NULL
           /\ UNCHANGED <<reports, tokens, token_transactions, jobs, nextJobId>>

\* a request refused by the pre-flight check has no job
RejectedHasNoJob ==
    \A r \in Invocations(1) :
        (req[r].pc = "done" /\ req[r].response.status = 402) =>
            /\ req[r].jobId = NULL
            /\ \A j \in JobIds : jobs[j] = NoJob

\* C21: with no fresh report and a balance below 1 the request is answered
\* 402 insufficient_tokens, no job is dispatched, and no report, balance or
\* transaction changes
C21_PreflightRejection == []RejectedHasNoJob /\ [][PreflightRejects]_vars

\* an account with balance 0 asked for an entity whose only reports are
\* older than the window and was refused
C21_RefusedOnStaleCache ==
    \E r \in Invocations(1) :
        /\ req[r].pc = "done"
        /\ req[r].cachedReport = NoCached
        /\ req[r].response = ErrorResponse(402, "insufficient_tokens")
        /\ tokens[req[r].user_id] = 0
        /\ \E row \in reports : row.ticker = req[r].tickerUpper
        /\ FreshReports(req[r].tickerUpper) = {}

\* the steps by which a request that missed the cache is accepted: with a
\* balance of at least 1 the pre-flight check lets it through, and the
\* dispatch queues one job under an unused id for the account and the
\* normalized entity and answers 202 with that id; neither step changes a
\* balance or the log
AcceptStep ==
    \A r \in Invocations(1) :
        /\ (req[r].pc = "preflight" /\ tokens[req[r].user_id] >= 1
            /\ req'[r] # req[r])
           => /\ req'[r].pc = "dispatch"
              /\ UNCHANGED <<tokens, token_transactions, reports, jobs>>
        /\ (req[r].pc = "dispatch" /\ req'[r] # req[r])
           => /\ jobs[nextJobId] = NoJob
              /\ \A j \in JobIds \ {nextJobId} : jobs'[j] = jobs[j]
              /\ jobs'[nextJobId].status = "queued"
              /\ jobs'[nextJobId].user_id = req[r].user_id
              /\ jobs'[nextJobId].ticker = toUpperCase(req[r].ticker)
              /\ req'[r].pc = "done"
              /\ req'[r].response = AcceptedResponse(nextJobId)
              /\ UNCHANGED <<tokens, token_transactions, reports>>

\* a run that has completed has debited the account: a usage transaction
\* of -1 by the job's account is linked to the job's report
DebitedAtCompletion ==
    \A j \in JobIds :
        jobs[j].status = "completed" =>
            \E i \in DOMAIN token_transactions :
                /\ token_transactions[i].transaction_type = "usage"
                /\ token_transactions[i].user_id = jobs[j].user_id
                /\ token_transactions[i].report_id = jobs[j].report_id
                /\ token_transactions[i].tokens_amount = -1

\* C22: accepting a request on a cache miss dispatches one job under a
\* fresh id, answers 202 with it and moves no money; the debit happens as
\* part of the worker's completion
C22_AcceptMovesNoMoney == []DebitedAtCompletion /\ [][AcceptStep]_vars

\* the acceptance alone: one job, a fresh id, 202, no balance or log change
AcceptFrameHolds == [][AcceptStep]_vars

\* C23: once a request has been accepted (its job handed to the worker, or
\* 202 returned), one token has been deducted from the account and a usage
\* transaction stands in the log
C23_DeductedBeforeDispatch ==
    \A r \in Invocations(1) :
        (req[r].jobId # NULL \/ req[r].response.status = 202) =>
            /\ tokens[req[r].user_id] = req[r].profile - 1
            /\ \E i \in DOMAIN token_transactions :
                  /\ token_transactions[i].transaction_type = "usage"
                  /\ token_transactions[i].user_id = req[r].user_id
                  /\ token_transactions[i].tokens_amount = -1

\* a step of a job stores at most one report, and only while the job has
\* none
OneReportPerJob ==
    \A j \in JobIds :
        jobs'[j] # jobs[j] =>
            /\ ReportIds' \ ReportIds \subseteq {jobs'[j].report_id}
            /\ ReportIds' # ReportIds => jobs[j].report_id = NULL
            /\ jobs[j].report_id # NULL => jobs'[j].report_id = jobs[j].report_id

\* a stored report keeps every field but refunded
FieldsKept ==
    \A row \in reports : \A new \in reports' :
        new.id = row.id => [new EXCEPT !.refunded = row.refunded] = row

\* refunded only goes from false to true, in the step that appends the
\* refund transaction of +1 linked to the report
FlagWithRefund ==
    \A row \in reports : \A new \in reports' :
        (new.id = row.id /\ new.refunded # row.refunded) =>
            /\ ~row.refunded /\ new.refunded
            /\ token_transactions' =
                   Append(token_transactions, RefundTxn(row.user_id, row.id))

\* C24: a job stores at most one report; a stored report keeps its fields,
\* except that refunded may go from false to true once, in the step that
\* writes the refund transaction
C24_ReportLifecycle == [][OneReportPerJob /\ FieldsKept /\ FlagWithRefund]_vars

\* the lifecycle without the tie between flag and transaction
LifecycleButFlagStep ==
    [][/\ OneReportPerJob
       /\ FieldsKept
       /\ \A row \in reports : \A new \in reports' :
             (new.id = row.id /\ new.refunded # row.refunded) =>
                 ~row.refunded /\ new.refunded]_vars

-----------------------------------------------------------------------------
(* Properties of the quality validator *)

\* the jobs that have called validate_extraction
Validated == {j \in QualityJobs : jobs[j].pc # "validate"}

\* C25: the verdict of validate_extraction is is_valid exactly when the
\* issue list it returns is empty
C25_ValidIffNoIssues ==
    \A j \in Validated :
        jobs[j].quality_result.is_valid <=> jobs[j].quality_result.issues = <<>>

\* one run was handed a clean extraction and passed, after another was
\* handed the same and passed
C25_CleanPassedTwice ==
    /\ Validated = QualityJobs
    /\ \A j \in QualityJobs :
          /\ jobs[j].quality_result.is_valid
          /\ jobs[j].filings[1].sections =
                 [i \in DOMAIN ExtractedNames |->
                     Section(ExtractedNames[i], FullWords(ExtractedNames[i]), 0)]
          /\ jobs[j].ai_results # NoAiResult

\* the sections of the filings, as pairs of filing and position
SectionsIn(filings) ==
    {p \in (DOMAIN filings) \X (DOMAIN ExtractedNames) :
        p[2] \in DOMAIN filings[p[1]].sections}

SectionAt(filings, p) == filings[p[1]].sections[p[2]]

\* the filings that lack a required section
Lacking(filings) ==
    {i \in DOMAIN filings :
        \E k \in DOMAIN required_sections :
            \A n \in DOMAIN filings[i].sections :
                filings[i].sections[n].name # required_sections[k]}

\* the sections below the minimum of their name
Short(filings) ==
    {p \in SectionsIn(filings) :
        \/ SectionAt(filings, p).name = "Item 1"
              /\ SectionAt(filings, p).words < 1000
        \/ SectionAt(filings, p).name \in {"Item 1A", "Item 7"}
              /\ SectionAt(filings, p).words < 5000
        \/ SectionAt(filings, p).name = "Item 8"
              /\ SectionAt(filings, p).words < 10000}

\* the sections with words of which more than 80% hold a digit
Dense(filings) ==
    {p \in SectionsIn(filings) :
        /\ SectionAt(filings, p).words > 0
        /\ 5 * SectionAt(filings, p).number_words
               > 4 * SectionAt(filings, p).words}

\* the issues of one kind in a list
OfKind(issues, kind) == SelectSeq(issues, LAMBDA issue : issue.kind = kind)

\* C26: the issue list has one entry for every filing that lacks a required
\* section, every short section, every number-dense section, and one when
\* there are no summaries: no rule stops the others
C26_IssuesAccumulate ==
    \A j \in Validated :
        LET issues == jobs[j].quality_result.issues
            filings == jobs[j].filings
        IN  /\ Len(OfKind(issues, "Missing sections"))
                   = Cardinality(Lacking(filings))
            /\ Len(OfKind(issues, "Content too short"))
                   = Cardinality(Short(filings))
            /\ Len(OfKind(issues, "Appears to be mostly tables/numbers"))
                   = Cardinality(Dense(filings))
            /\ Len(OfKind(issues, "No AI summaries generated"))
                   = (IF jobs[j].ai_results.summaries = <<>> THEN 1 ELSE 0)
            /\ Len(issues) = Cardinality(Lacking(filings))
                   + Cardinality(Short(filings)) + Cardinality(Dense(filings))
                   + (IF jobs[j].ai_results.summaries = <<>> THEN 1 ELSE 0)
            /\ \A p \in Short(filings) :
                  \E i \in DOMAIN issues :
                      /\ issues[i].kind = "Content too short"
                      /\ issues[i].section = SectionAt(filings, p).name
                      /\ issues[i].words = SectionAt(filings, p).words
            /\ \A p \in Dense(filings) :
                  \E i \in DOMAIN issues :
                      /\ issues[i].kind = "Appears to be mostly tables/numbers"
                      /\ issues[i].section = SectionAt(filings, p).name

\* a run whose input broke every rule at once: a filing lacks a section,
\* two sections of one filing are short, two are dense, and there are no
\* summaries
C26_EveryRuleBroken ==
    \E j \in Validated :
        /\ Lacking(jobs[j].filings) # {}
        /\ \E p, q \in Short(jobs[j].filings) : p # q /\ p[1] = q[1]
        /\ \E p, q \in Dense(jobs[j].filings) : p # q
        /\ jobs[j].ai_results.summaries = <<>>
        /\ Len(jobs[j].quality_result.issues) = 6

\* the sections that have a minimum
WithMinimum == {"Item 1", "Item 1A", "Item 7", "Item 8"}

\* the minimum of a section name as the specification lists it
Minimum(name) ==
    CASE name = "Item 1" -> 1000
      [] name = "Item 1A" -> 5000
      [] name = "Item 7" -> 5000
      [] name = "Item 8" -> 10000

\* C27: for every present section of every filing, an issue naming the
\* section, its word count and the required minimum is in the list exactly
\* when the section has a minimum and its word count is strictly below it
C27_WordCountRule ==
    \A j \in Validated : \A p \in SectionsIn(jobs[j].filings) :
        LET sec == SectionAt(jobs[j].filings, p)
            issues == jobs[j].quality_result.issues
        IN  /\ (\E i \in DOMAIN issues :
                    /\ issues[i].kind = "Content too short"
                    /\ issues[i].section = sec.name
                    /\ issues[i].words = sec.words)
               <=> (sec.name \in WithMinimum /\ sec.words < Minimum(sec.name))
            /\ \A i \in DOMAIN issues :
                   (issues[i].kind = "Content too short"
                    /\ issues[i].section = sec.name)
                   => issues[i].min_words = Minimum(sec.name)

\* a run validated filings in which Item 7 has a stub of StubWords words
\* and is reported with that count and the minimum of 5000, Item 1A has
\* exactly 5000 words and is not reported, and a stub of Item 9A is not
\* reported either
C27_StubReportedExactPasses ==
    \E j \in Validated :
        LET issues == jobs[j].quality_result.issues
            sections == jobs[j].filings[1].sections
        IN  /\ \E n \in DOMAIN sections :
                  sections[n] = Section("Item 7", StubWords, 0)
            /\ \E n \in DOMAIN sections :
                  sections[n] = Section("Item 1A", 5000, 0)
            /\ \E n \in DOMAIN sections :
                  sections[n] = Section("Item 9A", StubWords, 0)
            /\ \E i \in DOMAIN issues :
                  issues[i] = Issue("Content too short", "Item 7", <<>>,
                                    StubWords, 5000)
            /\ \A i \in DOMAIN issues : issues[i].section # "Item 1A"
            /\ \A i \in DOMAIN issues : issues[i].section # "Item 9A"

\* the sections called name that have a token and of whose tokens strictly
\* more than four in five hold a digit
MostlyDigits(filings, name) ==
    {p \in SectionsIn(filings) :
        /\ SectionAt(filings, p).name = name
        /\ SectionAt(filings, p).words >= 1
        /\ 5 * SectionAt(filings, p).number_words
               > 4 * SectionAt(filings, p).words}

\* C28: for every section name, required or not, the list holds one
\* "mostly tables/numbers" entry for each section of that name, over all
\* filings, that has a token and strictly more than 80% tokens with a digit,
\* and no other
C28_DensityRule ==
    \A j \in Validated :
        /\ \A k \in DOMAIN ExtractedNames :
              Len(SelectSeq(jobs[j].quality_result.issues, LAMBDA issue :
                      issue.kind = "Appears to be mostly tables/numbers"
                      /\ issue.section = ExtractedNames[k]))
                  = Cardinality(MostlyDigits(jobs[j].filings, ExtractedNames[k]))
        /\ \A i \in DOMAIN jobs[j].quality_result.issues :
              jobs[j].quality_result.issues[i].kind
                      = "Appears to be mostly tables/numbers"
              => \E k \in DOMAIN ExtractedNames :
                    jobs[j].quality_result.issues[i].section = ExtractedNames[k]

\* a run validated filings with a section at exactly 80%, an empty section
\* and a section without a minimum just above 80%: only the last is flagged
C28_OnlyAboveEightyFlagged ==
    \E j \in Validated :
        LET filings == jobs[j].filings
            issues == jobs[j].quality_result.issues
        IN  /\ \E p \in SectionsIn(filings) :
                  /\ SectionAt(filings, p).words > 0
                  /\ 5 * SectionAt(filings, p).number_words
                         = 4 * SectionAt(filings, p).words
            /\ \E p \in SectionsIn(filings) : SectionAt(filings, p).words = 0
            /\ \E p \in SectionsIn(filings) :
                  /\ SectionAt(filings, p).name = "Item 9A"
                  /\ 5 * SectionAt(filings, p).number_words
                         > 4 * SectionAt(filings, p).words
            /\ OfKind(issues, "Appears to be mostly tables/numbers")
                   = <<Issue("Appears to be mostly tables/numbers", "Item 9A",
                             <<>>, 0, 0)>>

\* the required sections that filing i lacks, in the order of the
\* required set
MissingOf(filings, i) ==
    SelectSeq(<<"Item 1", "Item 1A", "Item 7", "Item 8">>,
              LAMBDA name : \A n \in DOMAIN filings[i].sections :
                                filings[i].sections[n].name # name)

\* C29: for each of the two filings a "Missing sections" entry listing what
\* it lacks is in the list exactly when it lacks a required section, there
\* are as many such entries as filings that lack one, and a run with such a
\* filing is not valid
C29_MissingSectionsRule ==
    \A j \in Validated :
        LET filings == jobs[j].filings
            issues == jobs[j].quality_result.issues
        IN  /\ Len(filings) = 2
            /\ \A i \in DOMAIN filings :
                  (\E n \in DOMAIN issues :
                       /\ issues[n].kind = "Missing sections"
                       /\ issues[n].missing = MissingOf(filings, i))
                  <=> MissingOf(filings, i) # <<>>
            /\ Len(SelectSeq(issues, LAMBDA issue :
                       issue.kind = "Missing sections"))
                   = Cardinality({i \in DOMAIN filings :
                                      MissingOf(filings, i) # <<>>})
            /\ (\E i \in DOMAIN filings : MissingOf(filings, i) # <<>>)
                   => ~jobs[j].quality_result.is_valid

\* a run validated a newer filing that lacks two required sections and an
\* older one that lacks another, everything else in order: two entries,
\* and the run is not valid
C29_BothFilingsLacking ==
    \E j \in Validated :
        /\ Len(MissingOf(jobs[j].filings, 1)) = 2
        /\ Len(MissingOf(jobs[j].filings, 2)) = 1
        /\ MissingOf(jobs[j].filings, 2)[1] \notin
               {MissingOf(jobs[j].filings, 1)[1], MissingOf(jobs[j].filings, 1)[2]}
        /\ jobs[j].quality_result =
               [is_valid |-> FALSE,
                issues |-> <<Issue("Missing sections", "",
                                   MissingOf(jobs[j].filings, 1), 0, 0),
                             Issue("Missing sections", "",
                                   MissingOf(jobs[j].filings, 2), 0, 0)>>]

\* two runs that validated equal filings and summaries hold equal results
SameVerdict ==
    \A j, k \in Validated :
        (jobs[j].filings = jobs[k].filings
         /\ jobs[j].ai_results = jobs[k].ai_results)
        => jobs[j].quality_result = jobs[k].quality_result

\* the call changes no balance, transaction, report, request or other job,
\* and of the calling run only the result, the progress and the position
ValidateFrame ==
    \A j \in QualityJobs :
        (jobs[j].pc = "validate" /\ jobs'[j].pc # "validate") =>
            /\ UNCHANGED <<tokens, rowLock, token_transactions, reports,
                           nextReportId, error_logs, req, callback_log>>
            /\ \A k \in JobIds \ {j} : jobs'[k] = jobs[k]
            /\ [jobs'[j] EXCEPT !.quality_result = jobs[j].quality_result,
                                !.progress = jobs[j].progress,
                                !.pc = jobs[j].pc] = jobs[j]

-----------------------------------------------------------------------------
(* Properties of credits, of the pipeline's order and of what is paid for *)

\* the payment webhook calls that credit account u
PurchaseCalls(u) ==
    {c \in Clients : client[c].user_id = u /\ client[c].op = "purchase"}

\* C31: once one purchase of n tokens and the deduct_token calls that ran
\* beside it on the account have all finished, the log ends with one
\* purchase transaction of +n and the balance is what the purchases add up
\* to (the initial balance and n) minus the number of debits that succeeded
C31_CreditsNotLost ==
    \A u \in Users :
        (/\ Cardinality(PurchaseCalls(u)) = 1
         /\ \A c \in Clients : client[c].user_id = u =>
                /\ client[c].op \in {"purchase", "deduct"}
                /\ client[c].pc = "done")
        => /\ \A p \in PurchaseCalls(u) :
                 /\ TxnsOf(u)[Len(TxnsOf(u))] = PurchaseTxn(u, client[p].amount)
                 /\ Len(SelectSeq(TxnsOf(u), LAMBDA t :
                        t = PurchaseTxn(u, client[p].amount))) <= 2
           /\ tokens[u] = SumAmounts(TxnsOf(u))
                  - Cardinality({c \in DeductCalls(u) : dt[c].pc = "returned"})

\* the jobs whose fetch returned fewer than two filings
TooFewFilings == {j \in JobIds : jobs[j].error = "Need 2 filings"}

\* such a job has run no later step and stored nothing, and once it is over
\* it is failed, with one error log row and one callback attempt
FailedAtFetch ==
    \A j \in TooFewFilings :
        /\ jobs[j].filings = <<>>
        /\ jobs[j].ai_results = NoAiResult
        /\ jobs[j].quality_result = NoQuality
        /\ jobs[j].report_id = NULL
        /\ jobs[j].pc \in {"except", "failure_callback", "done"}
        /\ jobs[j].pc = "done" =>
               /\ jobs[j].status = "failed"
               /\ Len(ErrorLogsOf(j)) = 1
               /\ jobs[j].callbacks = 1

\* its steps change no report, balance or transaction and start no job
FailedAtFetchFrame ==
    \A j \in JobIds :
        (jobs'[j] # jobs[j] /\ jobs'[j].error = "Need 2 filings") =>
            UNCHANGED <<tokens, token_transactions, reports, nextJobId>>

\* C32: a job whose fetch returns fewer than two filings goes to failed
\* without diff, summaries or quality check, stores no report, changes no
\* balance or transaction, writes an error log row, attempts the failure
\* callback and is not run again
C32_TooFewFilingsFatal == []FailedAtFetch /\ [][FailedAtFetchFrame]_vars

\* the same but for the row and the callback: the row is there whenever
\* the callback was attempted
FailedAtFetchQuietly ==
    /\ \A j \in TooFewFilings :
          /\ jobs[j].filings = <<>> /\ jobs[j].ai_results = NoAiResult
          /\ jobs[j].quality_result = NoQuality /\ jobs[j].report_id = NULL
          /\ jobs[j].pc = "done" => jobs[j].status = "failed"
    /\ \A j \in TooFewFilings :
          (jobs[j].pc = "done" /\ jobs[j].callbacks = 1) =>
              Len(ErrorLogsOf(j)) = 1

TooFewFilingsButLog == []FailedAtFetchQuietly /\ [][FailedAtFetchFrame]_vars

\* every job the worker accepted reaches completed or failed
JobsTerminate ==
    \A j \in JobIds :
        (jobs[j].status = "queued")
            ~> (jobs[j].status \in {"completed", "failed"})

\* a job in which a pipeline step raised and whose thread is over is
\* failed, with one error log row and one attempt of the failure callback
RaisedEndsReported ==
    \A j \in JobIds :
        (jobs[j].pc = "done" /\ jobs[j].error \notin {"", "callback"}) =>
            /\ jobs[j].status = "failed"
            /\ Len(ErrorLogsOf(j)) = 1
            /\ jobs[j].callbacks = 1

\* C33: under fair scheduling every accepted job reaches completed or
\* failed, and a job in which a pipeline step raised ends failed with one
\* error log row and an attempted failure callback
C33_EveryJobTerminates == JobsTerminate /\ []RaisedEndsReported

\* a step of job j's thread that changes a balance or the transaction log
JobLedgerWrite(j) ==
    /\ jobs[j].pc # "none"
    /\ jobs'[j] # jobs[j]
    /\ \/ tokens' # tokens
       \/ token_transactions' # token_transactions

\* the fetch and the summarizer have returned and the report row is stored
PersistedFirst(j) ==
    /\ Len(jobs[j].filings) = 2
    /\ jobs[j].ai_results = AiResult(jobs[j].filings)
    /\ jobs[j].quality_result # NoQuality
    /\ jobs[j].report_id \in ReportIds
    /\ jobs[j].error = ""

\* C34: a step of process_job changes a balance or the transaction log
\* only after the fetch and the summarizer have returned and the report
\* row has been stored; a run that fails before that changes neither
C34_LedgerWritesLast ==
    [][\A j \in JobIds : JobLedgerWrite(j) => PersistedFirst(j)]_vars

\* a worker run has stored its report and then refunded: the transaction
\* is logged and the balance is back up
C34_RefundAfterPersist ==
    \E j \in JobIds :
        /\ jobs[j].pc \in {"complete", "callback", "done"}
        /\ jobs[j].report_id \in ReportIds
        /\ jobs[j].error = ""
        /\ \E i \in DOMAIN token_transactions :
               token_transactions[i] =
                   RefundTxn(jobs[j].user_id, jobs[j].report_id)

\* no request handler, ledger call or worker thread is under way
Quiescent ==
    /\ \A s \in DOMAIN req : req[s].pc \in {"idle", "done"}
    /\ \A s \in DOMAIN dt : dt[s].pc = "idle"
    /\ \A c \in DOMAIN client : client[c].pc = "idle"
    /\ \A j \in JobIds : jobs[j].pc \in {"none", "done"}

\* the reports of account u that were not refunded
KeptReports(u) == {r \in reports : r.user_id = u /\ ~r.refunded}

\* the usage transactions of -1 recorded for account u
UsageDebits(u) ==
    SelectSeq(token_transactions,
              LAMBDA t : /\ t.user_id = u
                         /\ t.transaction_type = "usage"
                         /\ t.tokens_amount = -1)

\* C35: when nothing is under way, no account holds more reports that were
\* not refunded than it has usage transactions of -1, also after several
\* concurrent requests by an account with one token
C35_NoUnpaidReports ==
    Quiescent =>
        \A u \in Users : Cardinality(KeptReports(u)) <= Len(UsageDebits(u))

\* the jobs that have reached completed, whether or not the completion
\* callback raised afterwards
ReachedCompleted ==
    {j \in JobIds : jobs[j].status = "completed" \/ jobs[j].error = "callback"}

\* C36: the report stored by a job that has reached completed carries the
\* verdict and the issue list the quality check gave for that run, and is
\* marked refunded exactly when the verdict was a rejection
C36_RefundedIffRejected ==
    \A j \in ReachedCompleted :
        /\ jobs[j].report_id \in ReportIds
        /\ LET report == ReportById(jobs[j].report_id)
               verdict == validate_extraction(jobs[j].filings,
                                              jobs[j].ai_results)
           IN /\ jobs[j].quality_result = verdict
              /\ report.extraction_success = verdict.is_valid
              /\ report.extraction_issues = verdict.issues
              /\ report.refunded = ~report.extraction_success

\* a job completed after storing a report with one issue and refunding it
C36_RejectedRunRefunded ==
    \E j \in ReachedCompleted :
        /\ jobs[j].status = "completed"
        /\ jobs[j].report_id \in ReportIds
        /\ Len(ReportById(jobs[j].report_id).extraction_issues) = 1
        /\ ReportById(jobs[j].report_id).refunded

\* a request whose lookup found a fresh report dispatches a job although
\* a fresh report for its entity is in the store
DispatchDespiteFresh(r) ==
    /\ req[r].pc = "dispatch"
    /\ req'[r].pc = "done"
    /\ req'[r].response = AcceptedResponse(req'[r].jobId)
    /\ req[r].cachedReport.id # NULL
    /\ FreshReports(req[r].tickerUpper) # {}

\* no request does so
FreshBlocksDispatch == \A r \in DOMAIN req : ~DispatchDespiteFresh(r)

\* the requests that inserted a clone which is still stored next to its
\* source
Cloned ==
    {r \in DOMAIN req : /\ req[r].newReport \in ReportIds
                        /\ req[r].cachedReport.id \in ReportIds}

\* a clone carries its source's verdict, issues, narrative, filing
\* references and refunded flag
ClonesMatchSource ==
    \A r \in Cloned :
        LET clone == ReportById(req[r].newReport)
            source == ReportById(req[r].cachedReport.id)
        IN /\ clone.extraction_success = source.extraction_success
           /\ clone.extraction_issues = source.extraction_issues
           /\ clone.ai_summaries = source.ai_summaries
           /\ clone.filing_refs = source.filing_refs
           /\ clone.refunded = source.refunded

\* C37: while a report for the entity created within the window is stored,
\* original or clone, refunded or not, a request that found one is answered
\* from the cache and dispatches no job; every clone carries its source's
\* verdict, issues, narrative, filing references and refunded flag
C37_FreshReportBlocksRegeneration ==
    []ClonesMatchSource /\ [][FreshBlocksDispatch]_vars

\* a call of deduct_token by session s returns without error
DeductReturns(s) ==
    /\ dt[s].pc = "locked"
    /\ dt'[s].pc = "returned"

\* the balance of the profile row of the call's account went down by one
\* and no other balance changed
DecrementedOne(s) ==
    /\ dt[s].p_user_id \in DOMAIN tokens
    /\ DOMAIN tokens' = DOMAIN tokens
    /\ tokens'[dt[s].p_user_id] = tokens[dt[s].p_user_id] - 1
    /\ \A u \in DOMAIN tokens \ {dt[s].p_user_id} : tokens'[u] = tokens[u]

\* C38: a call of deduct_token that returns without error has decreased
\* the tokens_remaining of one existing profile row by one; a call for an
\* account with no profile row, or with a NULL balance, does not return
\* without error
C38_DeductSucceedsOnlyByDecrementing ==
    [][\A s \in DOMAIN dt : DeductReturns(s) => DecrementedOne(s)]_vars

====
